---------------------------- MODULE Spec2Model ----------------------------
(***************************************************************************)
(* sap.ui.model.odata.type.Int: the abstract integer type of the OData     *)
(* type system.  One instance of a concrete subtype is modelled: its       *)
(* constraints (nullable, minimum, maximum), its lazily created formatter  *)
(* and the calls the model binding makes on it.                            *)
(*                                                                         *)
(* JavaScript values are records [t, k, n, s]:                             *)
(*   t  the kind of value ("number", "string", "null", "undefined",        *)
(*      "boolean", "object"; "absent" for a property an object lacks);     *)
(*   k  for a number "finite", "NaN", "Infinity" or "-Infinity", for a     *)
(*      boolean "true" or "false";                                         *)
(*   n  for a finite number TWICE its value, so that n is even exactly     *)
(*      when the number is integral and 5.5 is n = 11;                     *)
(*   s  for a string its characters, a sequence of one-character strings.  *)
(***************************************************************************)
EXTENDS Integers, Sequences, FiniteSets, TLC

VARIABLES
    oFormat,       \* this.oFormat: the cached formatter, or NoFormat
    oConstraints,  \* this.oConstraints: [nullable, minimum, maximum]
    sLocale,       \* the locale of the hosting environment
    nCreated,      \* how many formatters NumberFormat.getIntegerInstance has built
    nSinceSignal,  \* how many of them since the last invalidation signal
    stale,         \* ids of the formatters an invalidation signal discarded
    last,          \* the most recent call: [op, arg, kind, outcome, value, message]
    display        \* the string a control shows: [v, s, locale, id], the value it
                   \* stands for, the locale and the formatter that made it

vars == <<oFormat, oConstraints, sLocale, nCreated, nSinceSignal, stale, last, display>>

----------------------------------------------------------------------------
(* Bounds of the model *)

\* the configured ranges reach up to MaxMagnitude thousands
MaxMagnitude == 1
\* at most this many formatters are built in one behaviour
MaxCreated == 2

----------------------------------------------------------------------------
(* JavaScript values *)

Val(t, k, n, s) == [t |-> t, k |-> k, n |-> n, s |-> s]
Null == Val("null", "", 0, <<>>)
Undefined == Val("undefined", "", 0, <<>>)
Absent == Val("absent", "", 0, <<>>)
Obj == Val("object", "", 0, <<>>)
True == Val("boolean", "true", 0, <<>>)
False == Val("boolean", "false", 0, <<>>)
NaN == Val("number", "NaN", 0, <<>>)
PosInf == Val("number", "Infinity", 0, <<>>)
NegInf == Val("number", "-Infinity", 0, <<>>)
\* the finite number h/2
Half(h) == Val("number", "finite", h, <<>>)
\* the integer i
Num(i) == Half(2 * i)
Str(s) == Val("string", "", 0, s)
EmptyString == Str(<<>>)

IsFinite(v) == v.t = "number" /\ v.k = "finite"
IsInteger(v) == IsFinite(v) /\ v.n % 2 = 0
\* the integer an integral number stands for
IntOf(v) == v.n \div 2

\* typeof v
TypeOf(v) == IF v.t = "null" THEN "object" ELSE v.t

\* isNaN(v) for a number v
isNaN(v) == v.t = "number" /\ v.k = "NaN"

\* a === b: NaN equals nothing, itself included
StrictEquals(a, b) == a = b /\ ~isNaN(a)

DigitChars == <<"0", "1", "2", "3", "4", "5", "6", "7", "8", "9">>
IsDigit(c) == \E d \in 1..10 : DigitChars[d] = c
DigitOf(c) == (CHOOSE d \in 1..10 : DigitChars[d] = c) - 1

\* the decimal digits of a natural number
RECURSIVE Digits(_)
Digits(n) ==
    IF n < 10 THEN <<DigitChars[n + 1]>>
    ELSE Digits(n \div 10) \o <<DigitChars[(n % 10) + 1]>>

\* the natural number a non-empty sequence of digits denotes
RECURSIVE NatOf(_)
NatOf(ds) ==
    IF Len(ds) = 0 THEN 0
    ELSE 10 * NatOf(SubSeq(ds, 1, Len(ds) - 1)) + DigitOf(ds[Len(ds)])

AllDigits(cs) == \A i \in 1..Len(cs) : IsDigit(cs[i])

\* the string without its leading sign, and whether that sign is a minus
Unsigned(cs) ==
    IF Len(cs) > 0 /\ cs[1] \in {"-", "+"} THEN SubSeq(cs, 2, Len(cs)) ELSE cs
Negative(cs) == Len(cs) > 0 /\ cs[1] = "-"

\* ToNumber of a non-empty string, then Math.floor: decimal literals with an
\* optional sign and an optional fraction are numbers, anything else is NaN
FloorOfString(cs) ==
    LET body == Unsigned(cs)
        dots == {i \in 1..Len(body) : body[i] = "."}
        dot == IF dots = {} THEN Len(body) + 1 ELSE CHOOSE i \in dots : TRUE
        whole == SubSeq(body, 1, dot - 1)
        frac == SubSeq(body, dot + 1, Len(body))
        fracZero == \A i \in 1..Len(frac) : frac[i] = "0"
    IN  IF \/ Cardinality(dots) > 1
           \/ ~AllDigits(whole) \/ ~AllDigits(frac)
           \/ Len(whole) + Len(frac) = 0
        THEN NaN
        ELSE IF Negative(cs)
             THEN Num(-NatOf(whole) - (IF fracZero THEN 0 ELSE 1))
             ELSE Num(NatOf(whole))

\* Math.floor(v), with the ToNumber conversion JavaScript applies first
MathFloor(v) ==
    CASE v.t = "number" -> IF IsFinite(v) THEN Num(v.n \div 2) ELSE v
      [] v.t = "string" -> IF v.s = <<>> THEN Num(0) ELSE FloorOfString(v.s)
      [] v.t = "null" -> Num(0)
      [] v.t = "boolean" -> IF v.k = "true" THEN Num(1) ELSE Num(0)
      [] OTHER -> NaN

\* a > b for a number a and an integer bound b
GreaterThan(a, b) ==
    CASE a.k = "finite" -> a.n > 2 * b
      [] a.k = "Infinity" -> TRUE
      [] OTHER -> FALSE

\* a < b for a number a and an integer bound b
LessThan(a, b) ==
    CASE a.k = "finite" -> a.n < 2 * b
      [] a.k = "-Infinity" -> TRUE
      [] OTHER -> FALSE

----------------------------------------------------------------------------
(* sap.ui.core.format.NumberFormat, the locale-aware formatter the type      *)
(* delegates to: an integer instance with grouping enabled                   *)

Locales == {"en", "de"}
GroupSize == 3
Thousand == 10 ^ GroupSize

\* the grouping separator of a locale
GroupingSeparator(sLoc) == IF sLoc = "en" THEN "," ELSE "."

\* no formatter is cached
NoFormat == [id |-> 0, locale |-> ""]

\* NumberFormat.getIntegerInstance({groupingEnabled: true}): a new formatter,
\* bound to the locale of the moment
getIntegerInstance == [id |-> nCreated + 1, locale |-> sLocale]

\* digits with the grouping separator between groups of GroupSize, from the right
RECURSIVE Grouped(_, _)
Grouped(ds, sep) ==
    IF Len(ds) <= GroupSize THEN ds
    ELSE Grouped(SubSeq(ds, 1, Len(ds) - GroupSize), sep)
            \o <<sep>> \o SubSeq(ds, Len(ds) - GroupSize + 1, Len(ds))

\* oFormatter.format(v) for an integer v: the characters of the display string
NumberFormat_format(oFormatter, v) ==
    LET i == IntOf(v)
        sep == GroupingSeparator(oFormatter.locale)
    IN  IF i < 0 THEN <<"-">> \o Grouped(Digits(-i), sep)
        ELSE Grouped(Digits(i), sep)

\* oFormatter.parse(cs) for a string: a sign, then digits and this locale's
\* grouping separators; the separators are dropped and the rest read as an
\* integer.  Anything else is NaN.
NumberFormat_parse(oFormatter, cs) ==
    LET sep == GroupingSeparator(oFormatter.locale)
        body == Unsigned(cs)
        digits == SelectSeq(body, IsDigit)
    IN  IF \/ Len(body) = 0
           \/ \E i \in 1..Len(body) : ~IsDigit(body[i]) /\ body[i] # sep
           \/ Len(digits) = 0
        THEN NaN
        ELSE IF Negative(cs) THEN Num(-NatOf(digits)) ELSE Num(NatOf(digits))

----------------------------------------------------------------------------
(* Results of a call *)

NoMessage == [text |-> "", subject |-> Undefined, detail |-> "", lo |-> 0, hi |-> 0]
Message(text, subject, detail, lo, hi) ==
    [text |-> text, subject |-> subject, detail |-> detail, lo |-> lo, hi |-> hi]

\* what a call leaves behind: how it ended, what it returned or threw, the
\* cached formatter after it and whether it built one
Return(v, f, built) ==
    [outcome |-> "return", value |-> v, message |-> NoMessage,
     oFormat |-> f, built |-> built]
Throw(sException, msg, f, built) ==
    [outcome |-> sException, value |-> Undefined, message |-> msg,
     oFormat |-> f, built |-> built]

----------------------------------------------------------------------------
(* The methods of Int *)

\* _getFormatter without its cache check: a formatter is built on every use
_getFormatter_uncached == [fmt |-> getIntegerInstance, built |-> TRUE]

\* Int.prototype._getFormatter: the cached formatter, built on first use
_getFormatter ==
    IF oFormat = NoFormat
    THEN [fmt |-> getIntegerInstance, built |-> TRUE]
    ELSE [fmt |-> oFormat, built |-> FALSE]

\* Int.prototype._handleLocalizationChange: this.oFormat after it
_handleLocalizationChange == NoFormat

\* formatValue with the switch made before the null check
formatValue_switchFirst(iValue, sTargetType) ==
    CASE sTargetType = "string" ->
            IF iValue = Undefined \/ iValue = Null
            THEN Return(Null, _getFormatter.fmt, _getFormatter.built)
            ELSE Return(Str(NumberFormat_format(_getFormatter.fmt, iValue)),
                        _getFormatter.fmt, _getFormatter.built)
      [] sTargetType \in {"int", "float", "any"} ->
            IF iValue = Undefined \/ iValue = Null
            THEN Return(Null, oFormat, FALSE)
            ELSE IF sTargetType = "int"
                 THEN Return(MathFloor(iValue), oFormat, FALSE)
                 ELSE Return(iValue, oFormat, FALSE)
      [] OTHER ->
            Throw("FormatException",
                  Message("Don't know how to format", Undefined, sTargetType, 0, 0),
                  oFormat, FALSE)

\* formatValue with "int" truncating toward zero instead of flooring
formatValue_truncating(iValue, sTargetType) ==
    IF iValue = Undefined \/ iValue = Null
    THEN Return(Null, oFormat, FALSE)
    ELSE CASE sTargetType = "string" ->
                LET g == _getFormatter
                IN  Return(Str(NumberFormat_format(g.fmt, iValue)), g.fmt, g.built)
           [] sTargetType = "int" ->
                Return(IF IsFinite(iValue) /\ iValue.n < 0
                       THEN Num(-((-iValue.n) \div 2))
                       ELSE MathFloor(iValue),
                       oFormat, FALSE)
           [] sTargetType \in {"float", "any"} -> Return(iValue, oFormat, FALSE)
           [] OTHER ->
                Throw("FormatException",
                      Message("Don't know how to format", Undefined, sTargetType, 0, 0),
                      oFormat, FALSE)

\* Int.prototype.formatValue
formatValue(iValue, sTargetType) ==
    IF iValue = Undefined \/ iValue = Null
    THEN Return(Null, oFormat, FALSE)
    ELSE CASE sTargetType = "string" ->
                LET g == _getFormatter
                IN  Return(Str(NumberFormat_format(g.fmt, iValue)), g.fmt, g.built)
           [] sTargetType = "int" -> Return(MathFloor(iValue), oFormat, FALSE)
           [] sTargetType \in {"float", "any"} -> Return(iValue, oFormat, FALSE)
           [] OTHER ->
                Throw("FormatException",
                      Message("Don't know how to format", Undefined, sTargetType, 0, 0),
                      oFormat, FALSE)

\* parseValue that lets the empty string through to the switch
parseValue_emptyUnguarded(vValue, sSourceType) ==
    IF vValue = Null
    THEN Return(Null, oFormat, FALSE)
    ELSE CASE sSourceType = "string" ->
                LET g == _getFormatter
                    iResult == NumberFormat_parse(g.fmt, vValue.s)
                IN  IF isNaN(iResult)
                    THEN Throw("ParseException",
                               Message("is not a valid", vValue, "", 0, 0),
                               g.fmt, g.built)
                    ELSE Return(iResult, g.fmt, g.built)
           [] sSourceType = "float" -> Return(MathFloor(vValue), oFormat, FALSE)
           [] sSourceType = "int" -> Return(vValue, oFormat, FALSE)
           [] OTHER ->
                Throw("ParseException",
                      Message("Don't know how to parse", Undefined, sSourceType, 0, 0),
                      oFormat, FALSE)

\* parseValue that accepts "any" as formatValue does, passing the value through
parseValue_anyAccepted(vValue, sSourceType) ==
    IF vValue = Null \/ vValue = EmptyString
    THEN Return(Null, oFormat, FALSE)
    ELSE CASE sSourceType = "string" ->
                LET g == _getFormatter
                    iResult == NumberFormat_parse(g.fmt, vValue.s)
                IN  IF isNaN(iResult)
                    THEN Throw("ParseException",
                               Message("is not a valid", vValue, "", 0, 0),
                               g.fmt, g.built)
                    ELSE Return(iResult, g.fmt, g.built)
           [] sSourceType = "float" -> Return(MathFloor(vValue), oFormat, FALSE)
           [] sSourceType \in {"int", "any"} -> Return(vValue, oFormat, FALSE)
           [] OTHER ->
                Throw("ParseException",
                      Message("Don't know how to parse", Undefined, sSourceType, 0, 0),
                      oFormat, FALSE)

\* parseValue that reads a string with Math.floor instead of the formatter
parseValue_stringFloored(vValue, sSourceType) ==
    IF vValue = Null \/ vValue = EmptyString
    THEN Return(Null, oFormat, FALSE)
    ELSE CASE sSourceType \in {"string", "float"} ->
                IF isNaN(MathFloor(vValue)) /\ sSourceType = "string"
                THEN Throw("ParseException",
                           Message("is not a valid", vValue, "", 0, 0),
                           oFormat, FALSE)
                ELSE Return(MathFloor(vValue), oFormat, FALSE)
           [] sSourceType = "int" -> Return(vValue, oFormat, FALSE)
           [] OTHER ->
                Throw("ParseException",
                      Message("Don't know how to parse", Undefined, sSourceType, 0, 0),
                      oFormat, FALSE)

\* Int.prototype.parseValue
parseValue(vValue, sSourceType) ==
    IF vValue = Null \/ vValue = EmptyString
    THEN Return(Null, oFormat, FALSE)
    ELSE CASE sSourceType = "string" ->
                LET g == _getFormatter
                    iResult == NumberFormat_parse(g.fmt, vValue.s)
                IN  IF isNaN(iResult)
                    THEN Throw("ParseException",
                               Message("is not a valid", vValue, "", 0, 0),
                               g.fmt, g.built)
                    ELSE Return(iResult, g.fmt, g.built)
           [] sSourceType = "float" -> Return(MathFloor(vValue), oFormat, FALSE)
           [] sSourceType = "int" -> Return(vValue, oFormat, FALSE)
           [] OTHER ->
                Throw("ParseException",
                      Message("Don't know how to parse", Undefined, sSourceType, 0, 0),
                      oFormat, FALSE)

\* setConstraints that takes over the argument's own minimum and maximum
setConstraints_replacing(oThis, oArg) ==
    [nullable |-> ~(oArg.t = "object" /\ oArg.nullable = False),
     minimum |-> IF oArg.t = "object" /\ oArg.hasRange THEN oArg.minimum
                 ELSE oThis.minimum,
     maximum |-> IF oArg.t = "object" /\ oArg.hasRange THEN oArg.maximum
                 ELSE oThis.maximum]

\* Int.prototype.setConstraints: this.oConstraints after it, oThis being
\* this.oConstraints before it.  The argument is
\* [t, nullable, hasRange, minimum, maximum]: undefined, null or an object
\* with its nullable property (Absent when it has none) and, when hasRange,
\* minimum and maximum properties of its own.
setConstraints(oThis, oArg) ==
    [oThis EXCEPT
        !.nullable = ~(oArg.t = "object" /\ oArg.nullable = False)]

\* Int.prototype.setFormatOptions: this.oFormat after it
setFormatOptions(oFormatOptions) == _handleLocalizationChange

\* validateValue with the bounds exclusive
validateValue_exclusive(iValue) ==
    IF iValue = Null /\ oConstraints.nullable
    THEN Return(Undefined, oFormat, FALSE)
    ELSE IF TypeOf(iValue) # "number" \/ ~StrictEquals(MathFloor(iValue), iValue)
    THEN Throw("ValidateException",
               Message("is not a valid (of type)", iValue, TypeOf(iValue), 0, 0),
               oFormat, FALSE)
    ELSE IF \/ ~LessThan(iValue, oConstraints.maximum)
            \/ ~GreaterThan(iValue, oConstraints.minimum)
    THEN Throw("ValidateException",
               Message("is out of range for", iValue, "",
                       oConstraints.minimum, oConstraints.maximum),
               oFormat, FALSE)
    ELSE Return(Undefined, oFormat, FALSE)

\* validateValue that accepts null whatever nullable says
validateValue_nullAccepted(iValue) ==
    IF iValue = Null
    THEN Return(Undefined, oFormat, FALSE)
    ELSE IF TypeOf(iValue) # "number" \/ ~StrictEquals(MathFloor(iValue), iValue)
    THEN Throw("ValidateException",
               Message("is not a valid (of type)", iValue, TypeOf(iValue), 0, 0),
               oFormat, FALSE)
    ELSE IF \/ GreaterThan(iValue, oConstraints.maximum)
            \/ LessThan(iValue, oConstraints.minimum)
    THEN Throw("ValidateException",
               Message("is out of range for", iValue, "",
                       oConstraints.minimum, oConstraints.maximum),
               oFormat, FALSE)
    ELSE Return(Undefined, oFormat, FALSE)

\* validateValue with the range check made before the kind check
validateValue_rangeFirst(iValue) ==
    IF iValue = Null /\ oConstraints.nullable
    THEN Return(Undefined, oFormat, FALSE)
    ELSE IF /\ TypeOf(iValue) = "number"
            /\ \/ GreaterThan(iValue, oConstraints.maximum)
               \/ LessThan(iValue, oConstraints.minimum)
    THEN Throw("ValidateException",
               Message("is out of range for", iValue, "",
                       oConstraints.minimum, oConstraints.maximum),
               oFormat, FALSE)
    ELSE IF TypeOf(iValue) # "number" \/ ~StrictEquals(MathFloor(iValue), iValue)
    THEN Throw("ValidateException",
               Message("is not a valid (of type)", iValue, TypeOf(iValue), 0, 0),
               oFormat, FALSE)
    ELSE Return(Undefined, oFormat, FALSE)

\* Int.prototype.validateValue
validateValue(iValue) ==
    IF iValue = Null /\ oConstraints.nullable
    THEN Return(Undefined, oFormat, FALSE)
    ELSE IF TypeOf(iValue) # "number" \/ ~StrictEquals(MathFloor(iValue), iValue)
    THEN Throw("ValidateException",
               Message("is not a valid (of type)", iValue, TypeOf(iValue), 0, 0),
               oFormat, FALSE)
    ELSE IF \/ GreaterThan(iValue, oConstraints.maximum)
            \/ LessThan(iValue, oConstraints.minimum)
    THEN Throw("ValidateException",
               Message("is out of range for", iValue, "",
                       oConstraints.minimum, oConstraints.maximum),
               oFormat, FALSE)
    ELSE Return(Undefined, oFormat, FALSE)

----------------------------------------------------------------------------
(* The instances and the inputs of the calls *)

\* the ranges the concrete subtypes configure: a signed and an unsigned one
\* for each magnitude
ConfiguredRanges ==
    UNION {{[minimum |-> -(m * Thousand), maximum |-> m * Thousand - 1],
            [minimum |-> 0, maximum |-> m * Thousand]} : m \in 1..MaxMagnitude}

\* the integers at and next to the bounds, and those around zero
IntInputs ==
    UNION {{r.minimum + d, r.maximum + d} : r \in ConfiguredRanges, d \in -1..1}
        \cup {-1, 0, 1}

\* non-integral numbers inside every range and outside every range
NonIntegralInputs ==
    {Half(1), Half(-1), Half(2 * MaxMagnitude * Thousand + 1),
     Half(-(2 * MaxMagnitude * Thousand) - 1)}

NumberInputs ==
    {Num(i) : i \in IntInputs} \cup NonIntegralInputs \cup {NaN, PosInf, NegInf}

\* the display strings of the bounds and of zero in every locale, the empty
\* string and a string that is no number
StringInputs ==
    {Str(NumberFormat_format([id |-> 0, locale |-> l], Num(i))) :
        i \in {0} \cup UNION {{r.minimum, r.maximum} : r \in ConfiguredRanges},
        l \in Locales}
        \cup {EmptyString, Str(<<"a", "b", "c">>)}

Values == NumberInputs \cup StringInputs \cup {Null, Undefined, Obj}

TargetTypes == {"string", "int", "float", "any", "boolean"}
SourceTypes == {"string", "int", "float", "any", "boolean"}

CArg(t, nullable, hasRange, minimum, maximum) ==
    [t |-> t, nullable |-> nullable, hasRange |-> hasRange,
     minimum |-> minimum, maximum |-> maximum]

\* the arguments of setConstraints and of the constructor
ConstraintArgs ==
    {CArg("undefined", Absent, FALSE, 0, 0), CArg("null", Absent, FALSE, 0, 0)}
        \cup {CArg("object", n, FALSE, 0, 0) :
                n \in {Absent, True, False, Null, Num(0), Str(<<"f", "a", "l", "s", "e">>)}}
        \cup {CArg("object", n, TRUE, 1, 2) : n \in {Absent, False}}

InRange(i) == oConstraints.minimum <= i /\ i <= oConstraints.maximum

NoDisplay == [v |-> Undefined, s |-> Undefined, locale |-> "", id |-> 0]

----------------------------------------------------------------------------
(* The state after construction and the calls *)

Called(op, arg, kind, r) ==
    [op |-> op, arg |-> arg, kind |-> kind,
     outcome |-> r.outcome, value |-> r.value, message |-> r.message]

\* the constructor of a concrete subtype: it sets minimum and maximum, then
\* SimpleType's constructor calls setFormatOptions and setConstraints
Init ==
    \E r \in ConfiguredRanges, c \in ConstraintArgs :
        /\ oConstraints =
              setConstraints([nullable |-> FALSE, minimum |-> r.minimum,
                              maximum |-> r.maximum], c)
        /\ last = Called("constructor", c, "", Return(Undefined, NoFormat, FALSE))
        /\ oFormat = NoFormat
        /\ sLocale \in Locales
        /\ nCreated = 0
        /\ nSinceSignal = 0
        /\ stale = {}
        /\ display = NoDisplay

\* the effect of a formatValue, parseValue or validateValue call that ended as r
Commit(op, arg, kind, r) ==
    /\ r.built => nCreated < MaxCreated
    /\ last' = Called(op, arg, kind, r)
    /\ oFormat' = r.oFormat
    /\ nCreated' = IF r.built THEN nCreated + 1 ELSE nCreated
    /\ nSinceSignal' = IF r.built THEN nSinceSignal + 1 ELSE nSinceSignal
    /\ UNCHANGED <<oConstraints, sLocale, stale>>

\* the formatter's format is defined on integers
FormatValue ==
    \E v \in NumberInputs \cup {Null, Undefined}, k \in TargetTypes :
        /\ k = "string" => IsInteger(v) \/ v \in {Null, Undefined}
        /\ Commit("formatValue", v, k, formatValue(v, k))
        /\ UNCHANGED display

\* the formatter's parse is defined on strings
ParseValue ==
    \E v \in Values, k \in SourceTypes :
        /\ k = "string" => v.t \in {"string", "null"}
        /\ Commit("parseValue", v, k, parseValue(v, k))
        /\ UNCHANGED display

ValidateValue ==
    \E v \in Values :
        /\ Commit("validateValue", v, "", validateValue(v))
        /\ UNCHANGED display

SetConstraints ==
    \E c \in ConstraintArgs :
        /\ oConstraints' = setConstraints(oConstraints, c)
        /\ last' = Called("setConstraints", c, "", Return(Undefined, oFormat, FALSE))
        /\ UNCHANGED <<oFormat, sLocale, nCreated, nSinceSignal, stale, display>>

\* an invalidation signal: what was built before it is stale from now on
Signal(op, arg, f) ==
    /\ oFormat' = f
    /\ stale' = IF oFormat = NoFormat THEN stale ELSE stale \cup {oFormat.id}
    /\ nSinceSignal' = 0
    /\ last' = Called(op, arg, "", Return(Undefined, f, FALSE))
    /\ UNCHANGED <<oConstraints, nCreated, display>>

SetFormatOptions ==
    \E o \in {Undefined, Obj} :
        /\ Signal("setFormatOptions", o, setFormatOptions(o))
        /\ UNCHANGED sLocale

\* the framework changes a localization setting and calls the hook
LocaleChange ==
    \E l \in Locales :
        /\ sLocale' = l
        /\ Signal("_handleLocalizationChange", Undefined, _handleLocalizationChange)

Next ==
    \/ FormatValue
    \/ ParseValue
    \/ ValidateValue
    \/ SetConstraints
    \/ SetFormatOptions
    \/ LocaleChange

Spec == Init /\ [][Next]_vars

\* a control shows a valid value: formatValue(v, "string") of an integer in range
ShowValue ==
    \E i \in IntInputs :
        /\ InRange(i)
        /\ LET r == formatValue(Num(i), "string")
           IN  /\ Commit("formatValue", Num(i), "string", r)
               /\ display' = [v |-> Num(i), s |-> r.value, locale |-> sLocale,
                               id |-> r.oFormat.id]

\* the control's string is parsed back
ParseDisplayed ==
    /\ display # NoDisplay
    /\ Commit("parseValue", display.s, "string", parseValue(display.s, "string"))
    /\ UNCHANGED display

NextRoundTrip ==
    \/ ShowValue
    \/ ParseDisplayed
    \/ SetConstraints
    \/ SetFormatOptions
    \/ LocaleChange

SpecRoundTrip == Init /\ [][NextRoundTrip]_vars

----------------------------------------------------------------------------
(* Properties *)

IsCall(op) == last.op = op
Returned == last.outcome = "return"
KindError ==
    /\ last.outcome = "ValidateException"
    /\ last.message.text = "is not a valid (of type)"
    /\ last.message.detail = TypeOf(last.arg)
RangeError ==
    /\ last.outcome = "ValidateException"
    /\ last.message.text = "is out of range for"
    /\ last.message.lo = oConstraints.minimum
    /\ last.message.hi = oConstraints.maximum

\* C1: validateValue of an integer v succeeds exactly when
\* minimum <= v <= maximum, both bounds included; otherwise it fails with the
\* out-of-range ValidateException that names the configured bounds.  The
\* nullable constraint plays no part.
C1_ValidateRange ==
    (IsCall("validateValue") /\ IsInteger(last.arg)) =>
        /\ Returned <=> InRange(IntOf(last.arg))
        /\ ~Returned => RangeError

\* validateValue(maximum) succeeded on an instance that rejects null
C1_Witness ==
    /\ IsCall("validateValue")
    /\ last.arg = Num(oConstraints.maximum)
    /\ Returned
    /\ ~oConstraints.nullable

\* C2: validateValue(null) succeeds exactly when nullable is true and fails
\* with a ValidateException otherwise; a fresh instance built without
\* constraints is nullable, and after setConstraints({nullable: false}) the
\* instance is not.
C2_ValidateNull ==
    /\ (IsCall("validateValue") /\ last.arg = Null) =>
            /\ Returned <=> oConstraints.nullable
            /\ ~Returned => last.outcome = "ValidateException"
    /\ (IsCall("constructor") /\ last.arg.t = "undefined") => oConstraints.nullable
    /\ (IsCall("setConstraints") /\ last.arg.t = "object" /\ last.arg.nullable = False)
            => ~oConstraints.nullable

\* validateValue(null) failed
C2_Witness ==
    /\ IsCall("validateValue")
    /\ last.arg = Null
    /\ last.outcome = "ValidateException"

\* C3: validateValue fails with the wrong-kind ValidateException for every
\* value that is no number (null included, unless nullable) and for every
\* number whose floor is not the number itself, inside the range or outside
\* it: the kind check comes before the range check.
C3_ValidateKind ==
    (/\ IsCall("validateValue")
     /\ \/ last.arg.t # "number" /\ ~(last.arg = Null /\ oConstraints.nullable)
        \/ last.arg.t = "number" /\ last.arg.k = "NaN"
        \/ last.arg.t = "number" /\ last.arg.k = "finite" /\ last.arg.n % 2 = 1)
        => KindError

\* a non-integral number above the maximum was rejected
C3_Witness ==
    /\ IsCall("validateValue")
    /\ IsFinite(last.arg)
    /\ last.arg.n % 2 = 1
    /\ last.arg.n > 2 * oConstraints.maximum
    /\ last.outcome = "ValidateException"

\* C4: formatValue of null or undefined returns null for every target type,
\* the unsupported ones included, and builds no formatter.
C4_FormatNull ==
    [][(last'.op = "formatValue" /\ last'.arg \in {Null, Undefined}) =>
            /\ last'.outcome = "return"
            /\ last'.value = Null
            /\ oFormat' = oFormat
            /\ nCreated' = nCreated]_vars

\* formatValue(undefined, "boolean") returned while no formatter was cached
C4_Witness ==
    /\ IsCall("formatValue")
    /\ last.arg = Undefined
    /\ last.kind = "boolean"
    /\ Returned
    /\ oFormat = NoFormat

\* C5: parseValue of null or of the empty string returns null for every
\* source type, the unsupported ones included, and builds no formatter.
C5_ParseNull ==
    [][(last'.op = "parseValue" /\ last'.arg \in {Null, EmptyString}) =>
            /\ last'.outcome = "return"
            /\ last'.value = Null
            /\ oFormat' = oFormat
            /\ nCreated' = nCreated]_vars

\* parseValue("", "string") returned while no formatter was cached
C5_Witness ==
    /\ IsCall("parseValue")
    /\ last.arg = EmptyString
    /\ last.kind = "string"
    /\ Returned
    /\ oFormat = NoFormat

\* r is the floor of the finite number v: the integer with r <= v < r + 1
IsFloorOf(r, v) == IsInteger(r) /\ r.n <= v.n /\ v.n < r.n + 2

\* C6: formatValue of a value that is neither null nor undefined depends on
\* the target type alone: "int" gives the floor (toward negative infinity),
\* "float" and "any" the value itself, "string" the formatter's output, and
\* any other target type a FormatException and no value.
C6_FormatByTarget ==
    (IsCall("formatValue") /\ last.arg \notin {Null, Undefined}) =>
        CASE last.kind = "int" ->
                /\ Returned
                /\ IF IsFinite(last.arg) THEN IsFloorOf(last.value, last.arg)
                   ELSE last.value = last.arg
          [] last.kind \in {"float", "any"} -> Returned /\ last.value = last.arg
          [] last.kind = "string" ->
                /\ Returned
                /\ oFormat # NoFormat
                /\ last.value = Str(NumberFormat_format(oFormat, last.arg))
          [] OTHER -> last.outcome = "FormatException" /\ last.value = Undefined

\* formatValue(-0.5, "int") returned -1
C6_Witness ==
    /\ IsCall("formatValue")
    /\ last.kind = "int"
    /\ last.arg = Half(-1)
    /\ last.value = Num(-1)

\* C7: parseValue of a value other than null and the empty string depends on
\* the source type alone, whatever the constraints are: "float" gives the
\* floor, "int" the value itself, "string" the formatter's parse result or a
\* ParseException when that is NaN, and any other source type, "any"
\* included, a ParseException.
C7_ParseBySource ==
    (IsCall("parseValue") /\ last.arg \notin {Null, EmptyString}) =>
        CASE last.kind = "float" ->
                /\ Returned
                /\ IF IsFinite(last.arg) THEN IsFloorOf(last.value, last.arg)
                   ELSE last.value = MathFloor(last.arg)
          [] last.kind = "int" -> Returned /\ last.value = last.arg
          [] last.kind = "string" ->
                /\ oFormat # NoFormat
                /\ LET n == NumberFormat_parse(oFormat, last.arg.s)
                   IN  IF isNaN(n) THEN last.outcome = "ParseException"
                       ELSE Returned /\ last.value = n
          [] OTHER -> last.outcome = "ParseException" /\ last.value = Undefined

\* parseValue(v, "any") threw for an integer v of the range
C7_Witness ==
    /\ IsCall("parseValue")
    /\ last.kind = "any"
    /\ IsInteger(last.arg)
    /\ InRange(IntOf(last.arg))
    /\ last.outcome = "ParseException"

\* C8: after setConstraints(c) nullable is false exactly when c is an object
\* whose nullable property is the boolean false, and true for every other
\* argument; no call ever changes minimum or maximum, even when c has a
\* minimum and a maximum of its own.
C8_SetConstraints ==
    /\ [](IsCall("setConstraints") =>
            (~oConstraints.nullable <=>
                /\ last.arg.t = "object"
                /\ last.arg.nullable.t = "boolean"
                /\ last.arg.nullable.k = "false"))
    /\ [][/\ oConstraints'.minimum = oConstraints.minimum
          /\ oConstraints'.maximum = oConstraints.maximum]_vars

\* setConstraints({nullable: false, minimum: 1, maximum: 2}) was called and
\* the range is still another
C8_Witness ==
    /\ IsCall("setConstraints")
    /\ last.arg.hasRange
    /\ last.arg.nullable = False
    /\ ~oConstraints.nullable
    /\ oConstraints.minimum # last.arg.minimum
    /\ oConstraints.maximum # last.arg.maximum

\* the string on display was parsed back
ParsedDisplayed ==
    /\ IsCall("parseValue")
    /\ last.kind = "string"
    /\ display # NoDisplay
    /\ last.arg = display.s

\* the parse gave back the value on display, and that value is valid
RoundTripped ==
    /\ Returned
    /\ last.value = display.v
    /\ validateValue(last.value).outcome = "return"

\* C9 as stated: for an integer v of the range,
\* parseValue(formatValue(v, "string"), "string") is v and passes
\* validateValue, whether or not a locale change or a setFormatOptions call
\* came between the format and the parse.
C9_RoundTripAcrossLocales == ParsedDisplayed => RoundTripped

\* C9, amended: the round trip gives v back and v passes validateValue when
\* the locale in force at the parse is the one in force at the format,
\* whatever setFormatOptions calls and locale-change hooks came between.
C9_RoundTripSameLocale == (ParsedDisplayed /\ display.locale = sLocale) => RoundTripped

\* a string with a grouping separator was parsed back by another formatter
\* than the one that made it
C9_Witness ==
    /\ ParsedDisplayed
    /\ display.locale = sLocale
    /\ oFormat.id # display.id
    /\ \E i \in 1..Len(display.s.s) : display.s.s[i] = GroupingSeparator(sLocale)
    /\ Returned

\* a format or parse call that goes to the formatter
UsesFormatter(call) ==
    /\ call.op \in {"formatValue", "parseValue"}
    /\ call.kind = "string"
    /\ call.arg \notin {Null, Undefined, EmptyString}

\* C10: a formatter is built only by a string format or parse of a value,
\* and only while none is cached; such a call then caches the one it built,
\* and reuses the cached one otherwise; the locale-change hook and
\* setFormatOptions leave none cached, so no formatter built before a signal
\* is used after it and at most one is built between two signals; every
\* other call leaves the cache as it was.
C10_FormatterCache ==
    /\ [](/\ (IsCall("setFormatOptions") \/ IsCall("_handleLocalizationChange"))
                => oFormat = NoFormat
          /\ oFormat # NoFormat => oFormat.id \notin stale
          /\ nSinceSignal <= 1)
    /\ [][/\ nCreated' # nCreated =>
                /\ oFormat = NoFormat
                /\ UsesFormatter(last')
                /\ nCreated' = nCreated + 1
          /\ (UsesFormatter(last') /\ oFormat = NoFormat) =>
                /\ nCreated' = nCreated + 1
                /\ oFormat' = [id |-> nCreated', locale |-> sLocale]
          /\ (UsesFormatter(last') /\ oFormat # NoFormat) =>
                /\ nCreated' = nCreated
                /\ oFormat' = oFormat
          /\ (/\ last'.op \in {"formatValue", "parseValue", "validateValue",
                               "setConstraints"}
              /\ ~UsesFormatter(last')) =>
                /\ nCreated' = nCreated
                /\ oFormat' = oFormat]_vars

\* a second formatter is cached, the first having been discarded
C10_Witness ==
    /\ UsesFormatter(last)
    /\ oFormat.id = 2
    /\ stale = {1}

=============================================================================
